---- MODULE Spec2Model ----
(***************************************************************************)
(* The context memory store (products/ctx_store.py, ContextStore) and the  *)
(* memory lifecycle of the manager plugin (products/ctx.mgr.py, Plugin):   *)
(* decay, consolidation, archival, forgetting and retrieval from archive.  *)
(*                                                                         *)
(* Time is counted in whole days: timedelta(hours=24) is one day.          *)
(* Decay and importance factors are counted in tenths: 1.0 is 10, 0.7 is   *)
(* 7, 0.3 is 3, 0.2 is 2, 0.1 is 1.                                        *)
(* A text (the "what" of a context, a search term) is a sequence of        *)
(* characters.  A context id, f"{type}_{timestamp}", is the pair           *)
(* <<type, timestamp>>.                                                    *)
(***************************************************************************)
EXTENDS Integers, Sequences, FiniteSets, TLC

VARIABLES
    now,       \* the clock: the value datetime.now() returns
    contexts,  \* the contexts table: id -> row
    files,     \* ids with a mirror file base_path/<type>/<id>.yml
    archive,   \* ids with a file base_path/archive/<type>/<id>.yml -> its data
    alive,     \* history: ids saved and not removed by forget or forget-old
    read_only, \* the database connection was opened with read_only=True
    dimension_tracking, \* the dimension_tracking table: <<dimension, timestamp>> -> row
    result,    \* what the last direct call of the store's API returned
    sweep      \* the lifecycle sweep in progress: its scan and its position

vars == <<now, contexts, files, archive, alive, read_only, dimension_tracking,
          result, sweep>>

-----------------------------------------------------------------------------
(* Bounds of the model *)

MaxRows == 2      \* save is called only while it leaves at most this many rows
MaxActive == 3    \* retrieval is called only while it leaves at most this many rows
MaxRetrieval == 2 \* retrieval is called only while every counter it raises is below this
MaxSkew == 1      \* the clock moves at most this far inside calls between two ticks

(* The days at which calls are made, the inputs of the calls *)
TimeGrid == {0, 90, 100}
SaveInputs ==
    {[type |-> "note", what |-> <<"x", "Z">>, exempt |-> FALSE],
     [type |-> "decision", what |-> <<"q">>, exempt |-> TRUE]}
Terms == {<<"Z">>, <<>>}
Importances == {1}
DaysArgs == {<<>>, <<30>>}   \* <<>>: no "days" in the arguments

-----------------------------------------------------------------------------
(* Plugin.__init__: lifecycle thresholds and decay factors *)

hot_hours == 24
warm_days == 7
cold_days == 30
archive_days == 90
forget_days == 365

decay_hot == 10
decay_warm == 7
decay_cold == 3
decay_archived == 0

hot_days == hot_hours \div 24

-----------------------------------------------------------------------------
(* Texts *)

LowerChar(c) ==
    CASE c = "X" -> "x"
      [] c = "Z" -> "z"
      [] c = "Q" -> "q"
      [] OTHER -> c

\* str.lower()
Lower(s) == [i \in 1..Len(s) |-> LowerChar(s[i])]

\* needle in hay
Contains(hay, needle) ==
    \E i \in 0..(Len(hay) - Len(needle)) :
        SubSeq(hay, i + 1, i + Len(needle)) = needle

-----------------------------------------------------------------------------
(* ContextStore *)

\* the details a caller passes: a dict that may hold decay_exempt
Details(exempt) == [decay_exempt |-> exempt]

\* json.dumps({"importance": 1.0}): the metadata remember() writes.  The keys
\* decay_exempt, decay and decay_updated are absent: decay_exempt = FALSE and
\* has_decay = FALSE stand for the absent keys.
NewMeta ==
    [importance |-> 10, decay_exempt |-> FALSE,
     has_decay |-> FALSE, decay |-> 0, decay_updated |-> 0]

\* f"{context_type}_{datetime.now().timestamp()}"
ContextId(type, ts) == <<type, ts>>

\* remember(what, details, context_type) at clock reading t, on the state st:
\* INSERT OR REPLACE of the row, then _persist_to_file
Remember(st, type, what, details, t) ==
    LET id == ContextId(type, t)
        row == [what |-> what, details |-> details, type |-> type, when |-> t,
                created_at |-> t, updated_at |-> t, metadata |-> NewMeta,
                dimension |-> type, activation_score |-> 10]
    IN [st EXCEPT
          !.contexts = [i \in DOMAIN st.contexts \cup {id} |->
                          IF i = id THEN row ELSE st.contexts[i]],
          !.files = @ \cup {id},
          !.alive = @ \cup {id}]

\* mark_important(context_id, importance)
MarkImportantOp(st, id, importance) ==
    IF id \in DOMAIN st.contexts
    THEN [st EXCEPT !.contexts[id].metadata.importance = importance]
    ELSE st

\* forget(context_id): DELETE of the row, then unlink of every <id>.yml under
\* base_path, which holds the mirror file and the archive directory
ForgetOp(st, id) ==
    [st EXCEPT
       !.contexts = [i \in DOMAIN st.contexts \ {id} |-> st.contexts[i]],
       !.files = @ \ {id},
       !.archive = [i \in DOMAIN st.archive \ {id} |-> st.archive[i]]]

-----------------------------------------------------------------------------
(* Plugin: memory lifecycle *)

\* meta.get('decay', 1.0)
CurrentDecay(meta) == IF meta.has_decay THEN meta.decay ELSE 10

\* the tier comparisons turned round: a row gets the cold factor while it is
\* younger than cold_days and keeps full decay from then on
NewDecayInverted(meta, age) ==
    IF meta.decay_exempt THEN 10
    ELSE IF age < cold_days THEN decay_cold
    ELSE IF age < warm_days THEN decay_warm
    ELSE IF age < hot_days THEN decay_warm
    ELSE decay_hot

\* _decay_memory: the decay a row of this metadata and age gets
NewDecay(meta, age) ==
    IF meta.decay_exempt THEN 10
    ELSE IF age > cold_days THEN decay_cold
    ELSE IF age > warm_days THEN decay_warm
    ELSE IF age > hot_days THEN decay_warm
    ELSE decay_hot

\* _decay_memory at clock reading t: the rows whose decay changes are written
DecayMemory(st, t) ==
    LET changed == {id \in DOMAIN st.contexts :
                      NewDecay(st.contexts[id].metadata, t - st.contexts[id].created_at)
                        # CurrentDecay(st.contexts[id].metadata)}
    IN [state |->
          [st EXCEPT !.contexts =
             [id \in DOMAIN st.contexts |->
                IF id \in changed
                THEN [st.contexts[id] EXCEPT
                        !.metadata.has_decay = TRUE,
                        !.metadata.decay =
                            NewDecay(st.contexts[id].metadata,
                                     t - st.contexts[id].created_at),
                        !.metadata.decay_updated = t]
                ELSE st.contexts[id]]],
        n |-> Cardinality(changed), err |-> FALSE]

\* the rows of set S ordered by created_at, oldest first (ORDER BY created_at)
RECURSIVE ByCreated(_, _)
ByCreated(rows, S) ==
    IF S = {} THEN <<>>
    ELSE LET first == CHOOSE i \in S :
                         \A j \in S : rows[i].created_at <= rows[j].created_at
         IN <<first>> \o ByCreated(rows, S \ {first})

consolidate_min == 10   \* len(cold_contexts) > 10
keep_recent == 5        \* cold_contexts[:-5]
items_cap == 20         \* summary_items[:20]
demoted_importance == 1 \* mark_important(ctx_id, 0.1)

\* the cold rows of a type at clock reading t, oldest first
ColdContexts(st, type, t) ==
    ByCreated(st.contexts,
              {id \in DOMAIN st.contexts :
                  /\ st.contexts[id].type = type
                  /\ st.contexts[id].created_at < t - cold_days})

\* the threshold taken as "10 or more"
ToMergeFromTen(cold) ==
    IF Len(cold) >= consolidate_min THEN SubSeq(cold, 1, Len(cold) - keep_recent)
    ELSE <<>>

\* cold_contexts[:-5]
ToMerge(cold) ==
    IF Len(cold) > consolidate_min THEN SubSeq(cold, 1, Len(cold) - keep_recent)
    ELSE <<>>

\* mark_important(ctx_id, 0.1) for each id of the sequence
RECURSIVE DemoteAll(_, _)
DemoteAll(st, ids) ==
    IF ids = <<>> THEN st
    ELSE DemoteAll(MarkImportantOp(st, Head(ids), demoted_importance), Tail(ids))

\* the body of the loop over the types of _consolidate_memory, for one type
ConsolidateType(st, type, t) ==
    LET merged == ToMerge(ColdContexts(st, type, t))
        items == [k \in 1..Len(merged) |-> st.contexts[merged[k]].what]
        capped == IF Len(items) > items_cap THEN SubSeq(items, 1, items_cap) ELSE items
        saved == Remember(st, type \o "_consolidated",
                          <<"Consolidated ", type, " memories">>,
                          [items |-> capped, count |-> Len(items), consolidated_at |-> t],
                          t)
    IN IF merged = <<>> THEN st ELSE DemoteAll(saved, merged)

RECURSIVE ConsolidateTypes(_, _, _)
ConsolidateTypes(st, types, t) ==
    IF types = {} THEN [state |-> st, n |-> 0]
    ELSE LET type == CHOOSE x \in types : TRUE
             rest == ConsolidateTypes(ConsolidateType(st, type, t), types \ {type}, t)
         IN [state |-> rest.state,
             n |-> rest.n + Len(ToMerge(ColdContexts(st, type, t)))]

\* _consolidate_memory at clock reading t
ConsolidateMemory(st, t) ==
    LET r == ConsolidateTypes(st, {st.contexts[id].type : id \in DOMAIN st.contexts}, t)
    IN [state |-> r.state, n |-> r.n, err |-> FALSE]

-----------------------------------------------------------------------------
(* Archive *)

\* the number after "days" in the arguments, or the default
Days(args, default) == IF args = <<>> THEN default ELSE args[1]

archive_below == 2       \* json_extract(...) < 0.2
default_final_decay == 1 \* meta.get('decay', 0.1)

\* the WHERE clause of _archive_old: a decay key that is absent is NULL
Selected(st, days, t) ==
    {id \in DOMAIN st.contexts :
        \/ st.contexts[id].created_at < t - days
        \/ /\ st.contexts[id].metadata.has_decay
           /\ st.contexts[id].metadata.decay < archive_below
        \/ st.contexts[id].metadata.importance < archive_below}

\* the data _archive_old dumps for a row, and the file's modification time
ArchiveData(row, t) ==
    [what |-> row.what, details |-> row.details, type |-> row.type, when |-> row.when,
     archived_at |-> t,
     final_decay |-> IF row.metadata.has_decay THEN row.metadata.decay
                     ELSE default_final_decay,
     retrieval_count |-> 0, last_retrieved |-> 0, mtime |-> t]

\* the archive file of id written
WriteArchive(st, id, data) ==
    [st EXCEPT !.archive = [i \in DOMAIN st.archive \cup {id} |->
                               IF i = id THEN data ELSE st.archive[i]]]

\* the loop of _archive_old over the selected rows, in the order of the query's
\* result.  shutil.move of the mirror file into the archive directory raises,
\* since the archive file of the same name has just been written there: the
\* call ends with that error and the rows after it are not reached.
RECURSIVE ArchiveLoop(_, _, _, _)
ArchiveLoop(st, order, t, n) ==
    IF order = <<>> THEN [state |-> st, n |-> n, err |-> FALSE]
    ELSE LET id == Head(order)
             written == WriteArchive(st, id, ArchiveData(st.contexts[id], t))
         IN IF id \in st.files
            THEN [state |-> written, n |-> n, err |-> TRUE]
            ELSE ArchiveLoop(ForgetOp(written, id), Tail(order), t, n + 1)

\* _archive_old(args) at clock reading t
ArchiveOldOp(st, args, order, t) == ArchiveLoop(st, order, t, 0)

forget_below == 2   \* retrieval_count < 2

\* the archive files _forget_old unlinks
ToForget(st, days, t) ==
    {id \in DOMAIN st.archive :
        /\ st.archive[id].mtime < t - days
        /\ st.archive[id].retrieval_count < forget_below}

\* _forget_old(args) at clock reading t
ForgetOldOp(st, args, t) ==
    LET gone == ToForget(st, Days(args, forget_days), t)
    IN [state |-> [st EXCEPT
                     !.archive = [i \in DOMAIN st.archive \ gone |-> st.archive[i]],
                     !.alive = @ \ gone],
        n |-> Cardinality(gone), err |-> FALSE]

\* the text of an archive file that a search term can occur in: the terms are
\* over letters that occur in no key, type or number of the dumped data
Text(data) == data.what

\* search_term in str(data).lower()
Matches(st, search_term) ==
    {id \in DOMAIN st.archive : Contains(Lower(Text(st.archive[id])), search_term)}

\* the loop of _retrieve_from_archive over the matching files, in the order of
\* the glob; adv[k] is how far the clock has moved since the match before when
\* the k-th match is handled
RECURSIVE RetrieveLoop(_, _, _, _, _)
RetrieveLoop(st, order, adv, t, n) ==
    IF order = <<>> THEN [state |-> st, n |-> n, err |-> FALSE, clock |-> t]
    ELSE LET id == Head(order)
             c == t + Head(adv)
             data == [st.archive[id] EXCEPT
                        !.retrieval_count = @ + 1,
                        !.last_retrieved = c,
                        !.mtime = c]
             saved == Remember(WriteArchive(st, id, data),
                               data.type, data.what, data.details, c)
         IN RetrieveLoop(saved, Tail(order), Tail(adv), c, n + 1)

\* _retrieve_from_archive(query) at clock reading t
RetrieveOp(st, term, order, adv, t) ==
    IF Lower(term) = <<>>
    THEN [state |-> st, n |-> 0, err |-> FALSE, clock |-> t]
    ELSE RetrieveLoop(st, order, adv, t, 0)

\* _cleanup_memory at clock reading t: decay, consolidate, archive, forget; an
\* error of the archive step ends the call
CleanupOp(st, order, t) ==
    LET d == DecayMemory(st, t)
        c == ConsolidateMemory(d.state, t)
        a == ArchiveOldOp(c.state, <<>>, order, t)
        f == ForgetOldOp(a.state, <<>>, t)
    IN IF a.err THEN [state |-> a.state, n |-> d.n + c.n + a.n, err |-> TRUE]
       ELSE [state |-> f.state, n |-> d.n + c.n + a.n + f.n, err |-> FALSE]

\* the report of _cleanup_memory: the results of the four steps joined, or no
\* report when the archive step has raised
CleanupReport(st, order, t) ==
    LET d == DecayMemory(st, t)
        c == ConsolidateMemory(d.state, t)
        a == ArchiveOldOp(c.state, <<>>, order, t)
        f == ForgetOldOp(a.state, <<>>, t)
    IN IF a.err THEN <<>> ELSE <<d.n, c.n, a.n, f.n>>

\* the rows _cleanup_memory's archive step selects, after decay and consolidation
CleanupSelected(st, t) ==
    Selected(ConsolidateMemory(DecayMemory(st, t).state, t).state, archive_days, t)

\* _archive_status at clock reading t: the rows counted in each tier and the
\* archive files
ArchiveStatus(st, t) ==
    LET age(id) == t - st.contexts[id].created_at
        rows == DOMAIN st.contexts
    IN [hot |-> Cardinality({id \in rows : age(id) < hot_days}),
        warm |-> Cardinality({id \in rows :
                    ~(age(id) < hot_days) /\ age(id) < warm_days}),
        cold |-> Cardinality({id \in rows :
                    ~(age(id) < warm_days) /\ age(id) < cold_days}),
        to_archive |-> Cardinality({id \in rows :
                    ~(age(id) < cold_days) /\ age(id) < archive_days}),
        archived |-> Cardinality(DOMAIN st.archive)]

-----------------------------------------------------------------------------
(* The state machine *)

\* the orders in which a set can be listed
Orders(S) ==
    {o \in [1..Cardinality(S) -> S] : \A i, j \in DOMAIN o : o[i] = o[j] => i = j}

EmptyMap == [i \in {} |-> 0]

Cur == [contexts |-> contexts, files |-> files, archive |-> archive, alive |-> alive]

\* the tables and files a call of the store's API leaves
Written(st) ==
    /\ contexts' = st.contexts
    /\ files' = st.files
    /\ archive' = st.archive
    /\ alive' = st.alive

\* the state a command of the plugin leaves: its store calls' results are not
\* kept, and it tracks no dimension
Install(st) ==
    /\ Written(st)
    /\ UNCHANGED <<read_only, dimension_tracking, result, sweep>>

\* the last day of the grid the clock has reached
GridDay(t) == CHOOSE g \in TimeGrid : g <= t /\ \A h \in TimeGrid : h <= t => h <= g

\* an id no context was saved under
MissingId == ContextId("none", 0)

Ids == DOMAIN contexts \cup DOMAIN archive \cup {MissingId}

\* no direct call of the store's API has returned yet
NoResult == [op |-> "none", id |-> MissingId, err |-> "none"]

\* a call of the store's API has returned: none of them raises for a missing id
\* or a read-only connection
Returned(op, id) == [op |-> op, id |-> id, err |-> "none"]

\* the state _track_current_state passes for "company_overview": no 'count'
OverviewState == [total_dimensions |-> 0]

\* the row track_dimension writes: record_count = state.get('count', 0)
TrackRow(state) ==
    [state |-> state,
     record_count |-> IF "count" \in DOMAIN state THEN state.count ELSE 0]

\* track_dimension(dimension, state) at clock reading t: INSERT OR REPLACE
\* under the key (dimension, timestamp)
TrackDimensionOp(table, dimension, state, t) ==
    [k \in DOMAIN table \cup {<<dimension, t>>} |->
        IF k = <<dimension, t>> THEN TrackRow(state) ELSE table[k]]

\* _execute_safe of a writing statement: on a read-only connection the
\* statement's error is swallowed, nothing is written and None is returned
ExecuteSafe(ro, before, after) == IF ro THEN before ELSE after

\* no lifecycle sweep is in progress
Idle ==
    [op |-> "idle", rows |-> <<>>, scan |-> {}, step |-> "none", t |-> 0, n |-> 0,
     deleted |-> FALSE, saved |-> {}]

\* the store opened in normal mode and empty, then Plugin.__init__, which
\* tracks the dimension "company_overview"
Init ==
    /\ now = 0
    /\ contexts = EmptyMap
    /\ files = {}
    /\ archive = EmptyMap
    /\ alive = {}
    /\ read_only = FALSE
    /\ dimension_tracking = TrackDimensionOp(EmptyMap, "company_overview", OverviewState, 0)
    /\ result = NoResult
    /\ sweep = Idle

\* the clock moves on between two calls
Tick ==
    /\ \E t \in TimeGrid : t > now /\ now' = t
    /\ UNCHANGED <<contexts, files, archive, alive,
                   read_only, dimension_tracking, result, sweep>>

\* store.save(type, what, details)
Save(type, what, exempt) ==
    /\ Cardinality(DOMAIN contexts \cup {ContextId(type, now)}) <= MaxRows
    /\ Install(Remember(Cur, type, what, Details(exempt), now))
    /\ UNCHANGED now

\* store.mark_important(id, importance)
MarkImportant(id, importance) ==
    /\ Install(MarkImportantOp(Cur, id, importance))
    /\ UNCHANGED now

\* store.forget(id)
Forget(id) ==
    /\ Install([ForgetOp(Cur, id) EXCEPT !.alive = @ \ {id}])
    /\ UNCHANGED now

\* "decay"
ApplyDecay ==
    /\ Install(DecayMemory(Cur, now).state)
    /\ UNCHANGED now

\* "consolidate"
Consolidate ==
    /\ Install(ConsolidateMemory(Cur, now).state)
    /\ UNCHANGED now

\* "archive", "archive days <n>"
ArchiveOld(args) ==
    \E order \in Orders(Selected(Cur, Days(args, archive_days), now)) :
        /\ Install(ArchiveOldOp(Cur, args, order, now).state)
        /\ UNCHANGED now

\* "forget", "forget days <n>"
ForgetOld(args) ==
    /\ Install(ForgetOldOp(Cur, args, now).state)
    /\ UNCHANGED now

\* "archive retrieve <term>"
RetrieveFromArchive(term) ==
    LET found == Matches(Cur, Lower(term))
    IN /\ \A id \in found : archive[id].retrieval_count < MaxRetrieval
       /\ \E order \in Orders(found) :
          \E adv \in [1..Cardinality(found) -> {0, 1}] :
             LET r == RetrieveOp(Cur, term, order, adv, now)
             IN /\ found # {} => adv[1] = 0
                /\ r.clock <= GridDay(now) + MaxSkew
                /\ Cardinality(DOMAIN r.state.contexts) <= MaxActive
                /\ Install(r.state)
                /\ now' = r.clock

\* "cleanup"
RunFullCycle ==
    \E order \in Orders(CleanupSelected(Cur, now)) :
        /\ Install(CleanupOp(Cur, order, now).state)
        /\ UNCHANGED now

Next ==
    \/ Tick
    \/ \E in \in SaveInputs : Save(in.type, in.what, in.exempt)
    \/ \E id \in Ids, importance \in Importances : MarkImportant(id, importance)
    \/ \E id \in Ids : Forget(id)
    \/ ApplyDecay
    \/ Consolidate
    \/ \E args \in DaysArgs : ArchiveOld(args)
    \/ \E args \in DaysArgs : ForgetOld(args)
    \/ \E term \in Terms : RetrieveFromArchive(term)
    \/ RunFullCycle

Spec == Init /\ [][Next]_vars

-----------------------------------------------------------------------------
(* ContextStore called directly: its results, the read-only connection, the
   dimension snapshots and recall *)

MaxSnapshots == 2  \* a dimension is tracked only while this many snapshots are left
MaxLimit == 2      \* recall is called with a limit up to this

StoreInputs ==
    {[type |-> "task", what |-> <<"x", "Z">>],
     [type |-> "task", what |-> <<"x", "q">>]}
NullDetails == EmptyMap   \* details = None
Dimensions == {"company_overview", "tasks"}
TrackStates == {[count |-> 1]}
Abouts == {<<"Z">>, <<"x", "_">>, <<"%", "q">>, <<>>}
Limits == 0..MaxLimit

\* json.dumps(content): the what, then the type and the time of the content;
\* the type and the time are one symbol each, the quotes, keys and the null
\* details are the symbols around them
Serialize(row) ==
    <<"{">> \o row.what \o <<",", row.type, ",", ToString(row.when), "}">>

\* text LIKE pattern: % stands for any run of symbols, _ for any one symbol
RECURSIVE LikeMatch(_, _)
LikeMatch(text, pattern) ==
    IF pattern = <<>> THEN text = <<>>
    ELSE IF Head(pattern) = "%"
         THEN \E k \in 0..Len(text) :
                 LikeMatch(SubSeq(text, k + 1, Len(text)), Tail(pattern))
         ELSE /\ text # <<>>
              /\ Head(pattern) = "_" \/ Head(pattern) = Head(text)
              /\ LikeMatch(Tail(text), Tail(pattern))

\* content LIKE f'%{about}%'
Like(text, about) == LikeMatch(text, <<"%">> \o about \o <<"%">>)

\* the dict recall returns for a row: its content
Content(row) ==
    [what |-> row.what, details |-> row.details, type |-> row.type, when |-> row.when]

\* the listings of the rows of S by updated_at, latest first, cut at limit
Latest(rows, S, limit) ==
    {[k \in 1..(IF limit < Len(o) THEN limit ELSE Len(o)) |-> Content(rows[o[k]])] :
        o \in {q \in Orders(S) :
                 \A i, j \in DOMAIN q :
                    i < j => rows[q[i]].updated_at >= rows[q[j]].updated_at}}

\* recall(about, limit): the lists the query can return
Recall(st, about, limit) ==
    Latest(st.contexts,
           {id \in DOMAIN st.contexts : Like(Serialize(st.contexts[id]), about)},
           limit)

\* store.save(type, what, None), the returned id kept
SaveCall(type, what) ==
    LET id == ContextId(type, now)
    IN /\ Cardinality(DOMAIN contexts \cup {id}) <= MaxRows
       /\ Written(ExecuteSafe(read_only,
                              [Cur EXCEPT !.alive = @ \cup {id}],
                              Remember(Cur, type, what, NullDetails, now)))
       /\ result' = Returned("save", id)
       /\ UNCHANGED <<now, read_only, dimension_tracking, sweep>>

\* store.mark_important(id, importance)
MarkImportantCall(id, importance) ==
    /\ Written(ExecuteSafe(read_only, Cur, MarkImportantOp(Cur, id, importance)))
    /\ result' = Returned("mark_important", id)
    /\ UNCHANGED <<now, read_only, dimension_tracking, sweep>>

\* store.forget(id): the DELETE goes through _execute_safe, the files are
\* unlinked in either mode
ForgetCall(id) ==
    LET gone == ForgetOp(Cur, id)
    IN /\ Written([gone EXCEPT
                     !.contexts = ExecuteSafe(read_only, contexts, gone.contexts),
                     !.alive = @ \ {id}])
       /\ result' = Returned("forget", id)
       /\ UNCHANGED <<now, read_only, dimension_tracking, sweep>>

\* store.track_dimension(dimension, state)
TrackDimension(dimension, state) ==
    /\ Cardinality(DOMAIN dimension_tracking \cup {<<dimension, now>>}) <= MaxSnapshots
    /\ dimension_tracking' =
          ExecuteSafe(read_only, dimension_tracking,
                      TrackDimensionOp(dimension_tracking, dimension, state, now))
    /\ result' = Returned("track_dimension", <<"dimension", dimension, now>>)
    /\ UNCHANGED <<now, contexts, files, archive, alive, read_only, sweep>>

\* the process ends, with the sweep it was in, and a new one opens the
\* database, in normal mode or, when that fails, read-only; Plugin.__init__
\* then tracks "company_overview"
Reopen(ro) ==
    /\ Cardinality(DOMAIN dimension_tracking \cup {<<"company_overview", now>>})
          <= MaxSnapshots
    /\ read_only' = ro
    /\ dimension_tracking' =
          ExecuteSafe(ro, dimension_tracking,
                      TrackDimensionOp(dimension_tracking, "company_overview",
                                       OverviewState, now))
    /\ result' = NoResult
    /\ sweep' = Idle
    /\ UNCHANGED <<now, contexts, files, archive, alive>>

StoreNext ==
    \/ Tick
    \/ \E in \in StoreInputs : SaveCall(in.type, in.what)
    \/ \E id \in Ids, importance \in Importances : MarkImportantCall(id, importance)
    \/ \E id \in Ids : ForgetCall(id)
    \/ \E dimension \in Dimensions, state \in TrackStates :
          TrackDimension(dimension, state)
    \/ \E ro \in BOOLEAN : Reopen(ro)

StoreSpec == Init /\ [][StoreNext]_vars

-----------------------------------------------------------------------------
(* Consolidation of a long run of notes: one note a day is saved on
   consecutive days, and "consolidate" is called when they have turned cold *)

MaxBulk == 27   \* notes are saved on the days before this one

BulkGrid == {41, 60}
BulkForgets == {ContextId("note", 0)}

\* the text of the note saved on a day
BulkWhat(t) == IF t % 2 = 0 THEN <<"x">> ELSE <<"z", "Q">>

\* what a command of the plugin returned: its count
Reported(op, n) == [op |-> op, id |-> MissingId, err |-> "none", n |-> n]

BulkTick ==
    /\ \/ now + 1 < MaxBulk /\ now' = now + 1
       \/ \E t \in BulkGrid : t > now /\ now' = t
    /\ UNCHANGED <<contexts, files, archive, alive,
                   read_only, dimension_tracking, result, sweep>>

\* store.save("note", what, details) on the day after the last note, or as the
\* first note
BulkSave ==
    /\ now < MaxBulk
    /\ ContextId("note", now) \notin DOMAIN contexts
    /\ contexts = EmptyMap \/ ContextId("note", now - 1) \in DOMAIN contexts
    /\ Install(Remember(Cur, "note", BulkWhat(now), Details(FALSE), now))
    /\ UNCHANGED now

\* "consolidate", the report "Consolidated:{n}" kept
ConsolidateCall ==
    /\ Written(ConsolidateMemory(Cur, now).state)
    /\ result' = Reported("consolidate", ConsolidateMemory(Cur, now).n)
    /\ UNCHANGED <<now, read_only, dimension_tracking, sweep>>

BulkNext ==
    \/ BulkTick
    \/ BulkSave
    \/ ConsolidateCall
    \/ \E id \in BulkForgets : Forget(id)

BulkSpec == Init /\ [][BulkNext]_vars

-----------------------------------------------------------------------------
(* The lifecycle commands over a long run of notes: decay, consolidation and
   the full cycle are called when the notes have turned cold *)

\* two of the orders of a query's result: oldest first, and newest first
BulkOrders(rows, S) ==
    LET o == ByCreated(rows, S)
    IN {o, [k \in 1..Len(o) |-> o[Len(o) + 1 - k]]}

\* store.save("note", what, details) for a run of notes that starts at day 0
LifeSave == BulkSave /\ (contexts = EmptyMap => now = 0)

\* "cleanup", the joined report kept
RunFullCycleCall ==
    /\ now \in BulkGrid
    /\ \E order \in BulkOrders(ConsolidateMemory(DecayMemory(Cur, now).state,
                                                  now).state.contexts,
                                CleanupSelected(Cur, now)) :
          /\ Written(CleanupOp(Cur, order, now).state)
          /\ result' = [op |-> "cleanup", id |-> MissingId,
                        err |-> IF CleanupOp(Cur, order, now).err
                                THEN "shutil.Error" ELSE "none",
                        value |-> CleanupReport(Cur, order, now)]
    /\ UNCHANGED <<now, read_only, dimension_tracking, sweep>>

\* "decay" once the notes have turned cold
BulkDecay == now \in BulkGrid /\ ApplyDecay

\* store.mark_important of the first note
BulkMarkImportant ==
    /\ now \in BulkGrid
    /\ \E id \in BulkForgets, importance \in Importances : MarkImportant(id, importance)

LifeNext ==
    \/ BulkTick
    \/ LifeSave
    \/ ConsolidateCall
    \/ BulkDecay
    \/ BulkMarkImportant
    \/ \E id \in BulkForgets : Forget(id)
    \/ RunFullCycleCall

LifeSpec == Init /\ [][LifeNext]_vars

-----------------------------------------------------------------------------
(* Decay called directly on a store that may have been opened read-only *)

\* "decay", the report "Decayed:{n}" kept: the UPDATE statements go through
\* _execute_safe, and the count does not depend on their outcome
DecayCall ==
    /\ Written(ExecuteSafe(read_only, Cur, DecayMemory(Cur, now).state))
    /\ result' = Reported("decay", DecayMemory(Cur, now).n)
    /\ UNCHANGED <<now, read_only, dimension_tracking, sweep>>

DecayNext ==
    \/ Tick
    \/ \E in \in StoreInputs : SaveCall(in.type, in.what)
    \/ \E id \in Ids, importance \in Importances : MarkImportantCall(id, importance)
    \/ \E ro \in BOOLEAN : Reopen(ro)
    \/ DecayCall

DecaySpec == Init /\ [][DecayNext]_vars

-----------------------------------------------------------------------------
(* The sweeps statement by statement: the query of "decay" and of "archive",
   then the statements of the loop for each row of the query's result, while
   other callers save, mark, forget, and the process may end.  No lock and no
   transaction encloses a sweep. *)

\* the result of a sweep's query, in the order of the rows: each row as it
\* was when the query ran
ScanRows(order) == [k \in 1..Len(order) |-> [id |-> order[k], row |-> contexts[order[k]]]]

\* UPDATE contexts SET metadata = ? WHERE id = ?
UpdateMetadata(rows, id, meta) ==
    IF id \in DOMAIN rows THEN [rows EXCEPT ![id].metadata = meta] ELSE rows

\* _decay_memory: now = datetime.now() and the query
DecayScan ==
    /\ sweep = Idle
    /\ \E order \in Orders(DOMAIN contexts) :
          sweep' = [op |-> "decay", rows |-> ScanRows(order), scan |-> DOMAIN contexts,
                    step |-> "write", t |-> now, n |-> 0, deleted |-> FALSE,
                    saved |-> {}]
    /\ UNCHANGED <<now, contexts, files, archive, alive, read_only,
                   dimension_tracking, result>>

\* _decay_memory: the body of the loop for the next row of the query's result
DecayWrite ==
    /\ sweep.op = "decay"
    /\ sweep.rows # <<>>
    /\ LET r == Head(sweep.rows)
           meta == r.row.metadata
           new_decay == NewDecay(meta, sweep.t - r.row.created_at)
           changed == new_decay # CurrentDecay(meta)
       IN /\ contexts' =
                IF changed
                THEN ExecuteSafe(read_only, contexts,
                                 UpdateMetadata(contexts, r.id,
                                                [meta EXCEPT !.has_decay = TRUE,
                                                             !.decay = new_decay,
                                                             !.decay_updated = sweep.t]))
                ELSE contexts
          /\ sweep' = [sweep EXCEPT !.rows = Tail(@),
                                    !.n = IF changed THEN @ + 1 ELSE @]
    /\ UNCHANGED <<now, files, archive, alive, read_only, dimension_tracking, result>>

\* _archive_old: the query
ArchiveScan(args) ==
    /\ sweep = Idle
    /\ \E order \in Orders(Selected(Cur, Days(args, archive_days), now)) :
          sweep' = [op |-> "archive", rows |-> ScanRows(order),
                    scan |-> Selected(Cur, Days(args, archive_days), now),
                    step |-> "write", t |-> now, n |-> 0, deleted |-> FALSE,
                    saved |-> {}]
    /\ UNCHANGED <<now, contexts, files, archive, alive, read_only,
                   dimension_tracking, result>>

\* _archive_old: yaml.dump of the row's data into its archive file
ArchiveWrite ==
    /\ sweep.op = "archive" /\ sweep.step = "write"
    /\ sweep.rows # <<>>
    /\ archive' = WriteArchive(Cur, Head(sweep.rows).id,
                               ArchiveData(Head(sweep.rows).row, now)).archive
    /\ sweep' = [sweep EXCEPT !.step = "move"]
    /\ UNCHANGED <<now, contexts, files, alive, read_only, dimension_tracking, result>>

\* _archive_old: shutil.move of the mirror file, if there is one, which raises
\* and ends the sweep
ArchiveMove ==
    /\ sweep.op = "archive" /\ sweep.step = "move"
    /\ IF Head(sweep.rows).id \in files
       THEN /\ sweep' = Idle
            /\ result' = [op |-> "archive", id |-> MissingId, err |-> "shutil.Error"]
       ELSE /\ sweep' = [sweep EXCEPT !.step = "delete"]
            /\ UNCHANGED result
    /\ UNCHANGED <<now, contexts, files, archive, alive, read_only, dimension_tracking>>

\* _archive_old -> forget: DELETE FROM contexts WHERE id = ?; deleted tells
\* whether the statement has removed a row
ArchiveDelete ==
    /\ sweep.op = "archive" /\ sweep.step = "delete"
    /\ contexts' = ExecuteSafe(read_only, contexts,
                               ForgetOp(Cur, Head(sweep.rows).id).contexts)
    /\ sweep' = [sweep EXCEPT !.step = "unlink", !.deleted = contexts' # contexts]
    /\ UNCHANGED <<now, files, archive, alive, read_only, dimension_tracking, result>>

\* _archive_old -> forget: unlink of every <id>.yml under base_path; then
\* archived += 1
ArchiveUnlink ==
    /\ sweep.op = "archive" /\ sweep.step = "unlink"
    /\ files' = ForgetOp(Cur, Head(sweep.rows).id).files
    /\ archive' = ForgetOp(Cur, Head(sweep.rows).id).archive
    /\ sweep' = [sweep EXCEPT !.rows = Tail(@), !.step = "write", !.n = @ + 1,
                              !.deleted = FALSE]
    /\ UNCHANGED <<now, contexts, alive, read_only, dimension_tracking, result>>

\* the loop is over: return f"Decayed:{decayed}", f"Archived:{archived} ..."
SweepReturn ==
    /\ sweep.op # "idle" /\ sweep.step = "write"
    /\ sweep.rows = <<>>
    /\ result' = Reported(sweep.op, sweep.n)
    /\ sweep' = Idle
    /\ UNCHANGED <<now, contexts, files, archive, alive, read_only, dimension_tracking>>

\* the day the sweeps run at, after the first saves at day 0
SweepGrid == {90}

SweepTick ==
    /\ \E t \in SweepGrid : t > now /\ now' = t
    /\ UNCHANGED <<contexts, files, archive, alive,
                   read_only, dimension_tracking, result, sweep>>

\* the context another caller saves while sweeps run
SweepInput == [type |-> "task", what |-> <<"x", "Z">>]

\* store.save(type, what, None) by another caller, whose result is not kept;
\* saved keeps the ids of the rows created since the query of the sweep
ConcurrentSave(type, what) ==
    /\ Cardinality(DOMAIN contexts \cup {ContextId(type, now)}) <= MaxRows
    /\ Written(ExecuteSafe(read_only,
                           [Cur EXCEPT !.alive = @ \cup {ContextId(type, now)}],
                           Remember(Cur, type, what, NullDetails, now)))
    /\ sweep' = IF sweep.op # "idle" /\ DOMAIN contexts' # DOMAIN contexts
                THEN [sweep EXCEPT !.saved = @ \cup {ContextId(type, now)}]
                ELSE sweep
    /\ UNCHANGED <<now, read_only, dimension_tracking, result>>

\* store.mark_important(id, importance) by another caller
ConcurrentMarkImportant(id, importance) ==
    /\ Written(ExecuteSafe(read_only, Cur, MarkImportantOp(Cur, id, importance)))
    /\ UNCHANGED <<now, read_only, dimension_tracking, result, sweep>>

\* store.forget(id) by another caller
ConcurrentForget(id) ==
    /\ Written([ForgetOp(Cur, id) EXCEPT
                  !.contexts = ExecuteSafe(read_only, contexts, ForgetOp(Cur, id).contexts),
                  !.alive = @ \ {id}])
    /\ UNCHANGED <<now, read_only, dimension_tracking, result, sweep>>

\* a statement of a sweep's loop
SweepStep ==
    DecayWrite \/ ArchiveWrite \/ ArchiveMove \/ ArchiveDelete \/ ArchiveUnlink

SweepNext ==
    \/ SweepTick
    \/ ConcurrentSave(SweepInput.type, SweepInput.what)
    \/ \E id \in Ids, importance \in Importances : ConcurrentMarkImportant(id, importance)
    \/ \E id \in Ids : ConcurrentForget(id)
    \/ \E ro \in BOOLEAN : Reopen(ro)
    \/ DecayScan
    \/ \E args \in DaysArgs : ArchiveScan(args)
    \/ SweepStep
    \/ SweepReturn

SweepSpec == Init /\ [][SweepNext]_vars

-----------------------------------------------------------------------------
(* The read operations: recall, the lifecycle status and the summary of the
   dimensions, called between saves, archival and dimension tracking *)

\* the value the view dimension_summary gives where json_extract finds no key
Null == "NULL"

Least(S) == CHOOSE x \in S : \A y \in S : x <= y
Greatest(S) == CHOOSE x \in S : \A y \in S : x >= y

\* get_all_dimensions: one entry for each dimension of the view
\* dimension_summary; no state that is tracked has a key 'record_count', so
\* latest_count is NULL
GetAllDimensions(table) ==
    [d \in {k[1] : k \in DOMAIN table} |->
        [snapshots |-> Cardinality({k \in DOMAIN table : k[1] = d}),
         first_seen |-> Least({k[2] : k \in {q \in DOMAIN table : q[1] = d}}),
         last_seen |-> Greatest({k[2] : k \in {q \in DOMAIN table : q[1] = d}}),
         latest_count |-> Null]]

\* the substrings recall is called with between the other calls
ReadAbouts == {<<"Z">>, <<"q">>}

\* what a read operation returned
Read(op, value) == [op |-> op, id |-> MissingId, err |-> "none", value |-> value]

\* store.recall(about, limit)
RecallCall(about, limit) ==
    /\ \E list \in Recall(Cur, about, limit) :
          result' = Read("recall", [about |-> about, limit |-> limit, list |-> list])
    /\ UNCHANGED <<now, contexts, files, archive, alive, read_only,
                   dimension_tracking, sweep>>

\* "archive status"
StatusCall ==
    /\ result' = Read("status", ArchiveStatus(Cur, now))
    /\ UNCHANGED <<now, contexts, files, archive, alive, read_only,
                   dimension_tracking, sweep>>

\* the plugin's view of the dimensions, which reads the summary and then
\* tracks the dimension "dimensions_snapshot"
GetDimensionsView ==
    /\ result' = Read("dimensions", GetAllDimensions(dimension_tracking))
    /\ dimension_tracking' =
          TrackDimensionOp(dimension_tracking, "dimensions_snapshot",
                           [total |-> 0], now)
    /\ UNCHANGED <<now, contexts, files, archive, alive, read_only, sweep>>

\* store.get_all_dimensions()
GetAllDimensionsCall ==
    /\ result' = Read("dimensions", GetAllDimensions(dimension_tracking))
    /\ UNCHANGED <<now, contexts, files, archive, alive, read_only,
                   dimension_tracking, sweep>>

ReadNext ==
    \/ Tick
    \/ \E in \in SaveInputs : Save(in.type, in.what, in.exempt)
    \/ \E args \in DaysArgs : ArchiveOld(args)
    \/ \E dimension \in Dimensions, state \in TrackStates :
          TrackDimension(dimension, state)
    \/ \E about \in ReadAbouts : RecallCall(about, MaxLimit)
    \/ StatusCall
    \/ GetAllDimensionsCall

ReadSpec == Init /\ [][ReadNext]_vars

-----------------------------------------------------------------------------
(* Definitions the properties share *)

\* the state after a step
CurNext ==
    [contexts |-> contexts', files |-> files', archive |-> archive', alive |-> alive']

\* a context saved with decay_exempt = true in its details
Exempt(row) == "decay_exempt" \in DOMAIN row.details /\ row.details.decay_exempt

\* the step writes the archive entry of id
Archived(id) ==
    /\ id \in DOMAIN archive'
    /\ id \in DOMAIN archive => archive'[id] # archive[id]

\* the cold contexts of a type: created more than cold_days ago
ColdSet(type) ==
    {id \in DOMAIN contexts :
        contexts[id].type = type /\ now - contexts[id].created_at > cold_days}

Types == {contexts[id].type : id \in DOMAIN contexts}

ArchiveOldStep == \E args \in DaysArgs : ArchiveOld(args)
ForgetOldStep == \E args \in DaysArgs : ForgetOld(args)
RetrieveStep == \E term \in Terms : RetrieveFromArchive(term)

-----------------------------------------------------------------------------
(* Properties *)

\* C1 (invariant I2): every id that was saved and that neither forget nor
\* forget-old has removed is in exactly one of the active store and the
\* archive, never in both and never in neither.
C1_ExactlyOnePlace ==
    \A id \in alive : (id \in DOMAIN contexts) # (id \in DOMAIN archive)

\* C2 (invariant I1): an active context saved with decay_exempt = true has
\* decay 1.0, whatever its age and however often decay has been applied.
C2_ExemptKeepsFullDecay ==
    \A id \in DOMAIN contexts :
        Exempt(contexts[id]) => CurrentDecay(contexts[id].metadata) = 10

\* C3: archive-old and the full cycle write no archive entry for an exempt
\* context of importance 0.2 or more, whatever its age, and leave it active;
\* forget-old deletes no entry of an exempt context.
C3_ExemptNeverArchivedNorForgotten ==
    [][(ArchiveOldStep \/ RunFullCycle \/ ForgetOldStep) =>
          /\ \A id \in DOMAIN contexts :
                (/\ Exempt(contexts[id])
                 /\ contexts[id].metadata.importance >= archive_below)
                => (id \in DOMAIN contexts' /\ ~Archived(id))
          /\ \A id \in DOMAIN archive :
                Exempt(archive[id]) => id \in DOMAIN archive']_vars

\* C4: when archive-old has run, every active context it selected is out of
\* the active store and in the archive, every other active context is still
\* active, and the status that follows counts the archived ids among the
\* archive files and in no tier of active contexts.
C4_ArchiveOldMovesSelected ==
    [][\A args \in DaysArgs : ArchiveOld(args) =>
          LET sel == Selected(Cur, Days(args, archive_days), now)
              status == ArchiveStatus(CurNext, now')
          IN /\ \A id \in sel : id \notin DOMAIN contexts' /\ id \in DOMAIN archive'
             /\ \A id \in DOMAIN contexts \ sel :
                   id \in DOMAIN contexts' /\ contexts'[id] = contexts[id]
             /\ status.archived = Cardinality(DOMAIN archive \cup sel)
             /\ status.hot + status.warm + status.cold + status.to_archive
                   <= Cardinality(DOMAIN contexts \ sel)]_vars

\* C5: forget-old with days = N deletes an archive entry if and only if the
\* time since its archived_at exceeds N and its retrieval_count is below 2; a
\* retrieval does not reset the age.
C5_ForgetOldByArchivedAge ==
    [][\A args \in DaysArgs : ForgetOld(args) =>
          \A id \in DOMAIN archive :
              (id \notin DOMAIN archive') <=>
                  (/\ now - archive[id].archived_at > Days(args, forget_days)
                   /\ archive[id].retrieval_count < 2)]_vars

\* C6: retrieval with a term raises retrieval_count by exactly 1 for each
\* archive entry whose text contains the term, leaves these entries in the
\* archive, leaves every other entry unchanged, and creates one new active
\* context per match, with the entry's type, what and details.
C6_RetrieveOnePerMatch ==
    [][\A term \in Terms : (Lower(term) # <<>> /\ RetrieveFromArchive(term)) =>
          LET found == Matches(Cur, Lower(term))
              new == DOMAIN contexts' \ DOMAIN contexts
          IN /\ \A id \in found :
                   /\ id \in DOMAIN archive'
                   /\ archive'[id].retrieval_count = archive[id].retrieval_count + 1
             /\ \A id \in DOMAIN archive \ found :
                   id \in DOMAIN archive' /\ archive'[id] = archive[id]
             /\ \E f \in [found -> new] :
                   /\ \A i, j \in found : f[i] = f[j] => i = j
                   /\ \A c \in new : \E i \in found : f[i] = c
                   /\ \A i \in found :
                         /\ contexts'[f[i]].type = archive[i].type
                         /\ contexts'[f[i]].what = archive[i].what
                         /\ contexts'[f[i]].details = archive[i].details]_vars

\* C7 (invariant I3): the retrieval_count of an archive entry never decreases,
\* and it changes only in a retrieval.
C7_RetrievalCountMonotone ==
    [][\A id \in DOMAIN archive \cap DOMAIN archive' :
          /\ archive'[id].retrieval_count >= archive[id].retrieval_count
          /\ archive'[id].retrieval_count # archive[id].retrieval_count
                => RetrieveStep]_vars

\* the decay of the tier of an age, by the tier table
TierDecay(age) ==
    IF age < hot_days THEN decay_hot
    ELSE IF age < warm_days THEN decay_warm
    ELSE IF age < cold_days THEN decay_cold
    ELSE decay_archived

\* C8: after decay has been applied, a context that is not exempt has the
\* decay of its tier: 1.0 below hot_h, 0.7 below warm_d, 0.3 below cold_d and
\* 0.0 from cold_d on; at 10 days it is 0.3.
C8_DecayOfTier ==
    [][ApplyDecay =>
          \A id \in DOMAIN contexts' :
              ~Exempt(contexts'[id]) =>
                  CurrentDecay(contexts'[id].metadata)
                      = TierDecay(now' - contexts'[id].created_at)]_vars

\* C9: after one application of decay, of two active contexts that are not
\* exempt the older one has at most the decay of the younger one.
C9_OlderDecaysNoLess ==
    [][ApplyDecay =>
          \A a, b \in DOMAIN contexts' :
              (/\ ~Exempt(contexts'[a]) /\ ~Exempt(contexts'[b])
               /\ contexts'[a].created_at < contexts'[b].created_at)
              => CurrentDecay(contexts'[a].metadata)
                    <= CurrentDecay(contexts'[b].metadata)]_vars

\* C9, its case: decay written at this clock reading has left an older context
\* that is not exempt with less decay than a younger one
C9_Witness ==
    \E a, b \in DOMAIN contexts :
        /\ ~Exempt(contexts[a]) /\ ~Exempt(contexts[b])
        /\ contexts[a].created_at < contexts[b].created_at
        /\ contexts[a].metadata.has_decay
        /\ contexts[a].metadata.decay_updated = now
        /\ CurrentDecay(contexts[a].metadata) < CurrentDecay(contexts[b].metadata)

\* C10: the archive entry archive-old writes for a context has final_decay
\* equal to the decay the context had just before (1.0 if it never decayed),
\* retrieval_count 0 and archived_at the time of archival.
C10_FinalDecayIsDecayBefore ==
    [][ArchiveOldStep =>
          \A id \in DOMAIN contexts :
              Archived(id) =>
                  /\ archive'[id].final_decay = CurrentDecay(contexts[id].metadata)
                  /\ archive'[id].retrieval_count = 0
                  /\ archive'[id].archived_at = now]_vars

\* C13: a save on a read-only store fails with StorageUnavailable, and a save
\* that returns an id without an error has persisted the context of that id.
C13_SaveFailsWhenReadOnly ==
    [][\A in \in StoreInputs : SaveCall(in.type, in.what) =>
          /\ read_only => result'.err = "StorageUnavailable"
          /\ result'.err = "none" =>
                /\ result'.id \in DOMAIN contexts'
                /\ contexts'[result'.id].what = in.what]_vars

\* C14: mark-important sets the importance of the context of the id; for an id
\* of no active context it fails with NotFound and leaves the store unchanged.
C14_MarkImportantOrNotFound ==
    [][\A id \in Ids, importance \in Importances :
          MarkImportantCall(id, importance) =>
             IF id \in DOMAIN contexts
             THEN /\ id \in DOMAIN contexts'
                  /\ contexts'[id].metadata.importance = importance
             ELSE /\ result'.err = "NotFound"
                  /\ contexts' = contexts]_vars

\* C15: recall returns exactly the active contexts whose serialized content
\* contains the substring as a literal string, latest update first, cut at the
\* limit; after one save of "xZ" on an empty store, recall of "Z" returns that
\* one context.
C15_RecallLiteralLatestFirst ==
    \A about \in Abouts, limit \in Limits :
        Recall(Cur, about, limit) =
            Latest(contexts,
                   {id \in DOMAIN contexts : Contains(Serialize(contexts[id]), about)},
                   limit)

\* C16: after forget the id is not in the active store and every other active
\* context is unchanged; the call returns without an error, and on an id that
\* is not stored it changes nothing.
C16_ForgetIdempotent ==
    [][\A id \in Ids : ForgetCall(id) =>
          /\ id \notin DOMAIN contexts'
          /\ \A other \in DOMAIN contexts \ {id} :
                other \in DOMAIN contexts' /\ contexts'[other] = contexts[other]
          /\ result'.err = "none"
          /\ (id \notin DOMAIN contexts /\ id \notin files /\ id \notin DOMAIN archive)
                => CurNext = Cur]_vars

\* C17: a save yields an id that no context of the active store has, and it
\* leaves every context of the active store as it was.
C17_SaveNeverReusesAnId ==
    [][\A in \in StoreInputs : SaveCall(in.type, in.what) =>
          /\ result'.id \notin DOMAIN contexts
          /\ \A id \in DOMAIN contexts :
                id \in DOMAIN contexts' /\ contexts'[id] = contexts[id]]_vars

\* C20: tracking a dimension adds the snapshot keyed (name, now); no step
\* removes a snapshot, and a step changes only the snapshot it is keyed to.
C20_SnapshotsAppendOnly ==
    [][/\ \A dimension \in Dimensions, state \in TrackStates :
             TrackDimension(dimension, state) =>
                /\ <<dimension, now>> \in DOMAIN dimension_tracking'
                /\ dimension_tracking'[<<dimension, now>>] = TrackRow(state)
       /\ \A k \in DOMAIN dimension_tracking :
             /\ k \in DOMAIN dimension_tracking'
             /\ dimension_tracking'[k] # dimension_tracking[k] => k[2] = now]_vars

\* C11: for a type with more than 10 cold contexts, consolidate leaves the 5
\* most recently created of them unchanged, sets the importance of each of the
\* others to 0.1 and keeps them, and creates exactly one new context of type
\* <type>_consolidated, whose count is the number of the others and whose items
\* are whats of the others, 20 at most.
C11_ConsolidateMergesAllButFive ==
    [][ConsolidateCall =>
          \A type \in Types :
             LET cold == ColdSet(type)
                 kept == {id \in cold :
                            Cardinality({j \in cold : contexts[j].created_at
                                            > contexts[id].created_at}) < 5}
                 others == cold \ kept
                 new == {id \in DOMAIN contexts' \ DOMAIN contexts :
                            contexts'[id].type = type \o "_consolidated"}
                 size == IF Cardinality(others) > 20 THEN 20 ELSE Cardinality(others)
             IN Cardinality(cold) > 10 =>
                   /\ \A id \in kept :
                         id \in DOMAIN contexts' /\ contexts'[id] = contexts[id]
                   /\ \A id \in others :
                         /\ id \in DOMAIN contexts'
                         /\ contexts'[id] =
                               [contexts[id] EXCEPT !.metadata.importance = 1]
                   /\ Cardinality(new) = 1
                   /\ \A id \in new :
                         /\ contexts'[id].details.count = Cardinality(others)
                         /\ Len(contexts'[id].details.items) = size
                         /\ \A k \in 1..size :
                               \E o \in others :
                                  contexts'[id].details.items[k] = contexts[o].what]_vars

\* C12: the full cycle is decay, then consolidate, then archive-old with the
\* default threshold on the rows the two steps before have left, then
\* forget-old with the default threshold; every row archive-old selects there is
\* archived, and the report holds the four results in that order.
C12_FullCycleRunsFourPhases ==
    [][RunFullCycle =>
          \E order \in Orders(CleanupSelected(Cur, now)) :
             LET d == DecayMemory(Cur, now)
                 c == ConsolidateMemory(d.state, now)
                 f == ForgetOldOp(CurNext, <<>>, now)
             IN /\ \A id \in Selected(c.state, archive_days, now) :
                      id \in DOMAIN archive' /\ id \notin DOMAIN contexts'
                /\ f.n = 0
                /\ Len(CleanupReport(Cur, order, now)) = 4
                /\ CleanupReport(Cur, order, now)[1] = d.n
                /\ CleanupReport(Cur, order, now)[2] = c.n]_vars

\* C18: an archive entry appears only in archive-old (alone or in the full
\* cycle), changes only in a retrieval and disappears only in forget-old
\* (alone or in the full cycle); forget leaves the archive as it is.
C18_ArchiveEntryLifecycle ==
    [][/\ \A id \in DOMAIN archive' \ DOMAIN archive : ArchiveOldStep \/ RunFullCycle
       /\ \A id \in DOMAIN archive \cap DOMAIN archive' :
             archive'[id] # archive[id] => RetrieveStep
       /\ \A id \in DOMAIN archive \ DOMAIN archive' : ForgetOldStep \/ RunFullCycle
       /\ \A id \in Ids : Forget(id) => archive' = archive]_vars

\* C19: when no type has more than 10 cold contexts, consolidate creates no
\* context, changes no importance (no row at all) and reports 0.
C19_ConsolidateNoOpBelowThreshold ==
    [][(ConsolidateCall /\ \A type \in Types : Cardinality(ColdSet(type)) <= 10) =>
          /\ contexts' = contexts
          /\ files' = files
          /\ result'.n = 0]_vars

\* C19, its case: consolidate has reported 0 and a type has 10 cold contexts,
\* none of them demoted and no summary written
C19_Witness ==
    /\ result.op = "consolidate"
    /\ result.n = 0
    /\ \E type \in Types : Cardinality(ColdSet(type)) = 10
    /\ \A id \in DOMAIN contexts :
          contexts[id].type = "note" /\ contexts[id].metadata.importance = 10

\* C21: recall, the lifecycle status and the summary of the dimensions leave
\* the active store, the mirror files, the archive and the dimension snapshots
\* as they were.
C21_ReadsChangeNothing ==
    [][(\/ \E about \in ReadAbouts : RecallCall(about, MaxLimit)
        \/ StatusCall
        \/ GetAllDimensionsCall) =>
          /\ contexts' = contexts
          /\ files' = files
          /\ archive' = archive
          /\ dimension_tracking' = dimension_tracking]_vars

\* C21, its case: the summary of the dimensions has been read and has returned
\* two dimensions, while the store holds an active context and an archive entry
C21_Witness ==
    /\ result.op = "dimensions"
    /\ Cardinality(DOMAIN result.value) = 2
    /\ DOMAIN dimension_tracking = {<<"company_overview", 0>>, <<"tasks", now>>}
    /\ contexts # EmptyMap
    /\ archive # EmptyMap

\* C30: the four tier counts of the lifecycle status sum to the number of
\* active contexts, also when contexts older than archive_days are active.
C30_TierCountsSumToActive ==
    [][StatusCall =>
          result'.value.hot + result'.value.warm + result'.value.cold
             + result'.value.to_archive = Cardinality(DOMAIN contexts)]_vars

\* C24: archive-old processes every record it selected, also after a record
\* whose file step fails, and returns a report: each selected record has an
\* archive entry written in this sweep, and the sweep ends without an error.
C24_SweepSkipsFailedRecord ==
    [][\A args \in DaysArgs : ArchiveOld(args) =>
          LET sel == Selected(Cur, Days(args, archive_days), now)
          IN /\ \A id \in sel :
                   id \in DOMAIN archive' /\ archive'[id].archived_at = now
             /\ \E order \in Orders(sel) :
                   /\ ArchiveOldOp(Cur, args, order, now).state = CurNext
                   /\ ~ArchiveOldOp(Cur, args, order, now).err]_vars

\* C26: decay writes exactly the contexts whose recomputed decay differs from
\* the stored one (1.0 when none is stored), returns how many it has written,
\* and applied again at the same clock reading it returns 0 and writes nothing.
C26_DecayWritesOnlyChanges ==
    [][DecayCall =>
          LET written == {id \in DOMAIN contexts : contexts'[id] # contexts[id]}
              stored(id) == IF contexts[id].metadata.has_decay
                            THEN contexts[id].metadata.decay ELSE 10
          IN /\ DOMAIN contexts' = DOMAIN contexts
             /\ \A id \in DOMAIN contexts :
                   id \in written <=>
                      NewDecay(contexts[id].metadata, now - contexts[id].created_at)
                         # stored(id)
             /\ result'.n = Cardinality(written)
             /\ DecayMemory(CurNext, now').n = 0
             /\ DecayMemory(CurNext, now').state = CurNext]_vars

\* C27: no step changes the created_at of a context, and decay, consolidate
\* and mark-important leave the type, the content, the dimension and the
\* activation_score of every context that stays active as they were.
C27_OnlyMetadataChanges ==
    [][/\ \A id \in DOMAIN contexts \cap DOMAIN contexts' :
             contexts'[id].created_at = contexts[id].created_at
       /\ (ConsolidateCall \/ BulkDecay \/ BulkMarkImportant) =>
             \A id \in DOMAIN contexts \cap DOMAIN contexts' :
                 contexts'[id] = [contexts[id] EXCEPT
                                     !.metadata = contexts'[id].metadata]]_vars

\* C28: after one full cycle every context its consolidate phase has demoted
\* to importance 0.1 is out of the active store and has an archive entry, and
\* the kept cold contexts and the new consolidated context are still active
\* unless they are older than archive_days.
C28_CycleArchivesDemoted ==
    [][RunFullCycleCall =>
          LET d == DecayMemory(Cur, now).state
              c == ConsolidateMemory(d, now).state
              demoted == {id \in DOMAIN contexts :
                            /\ d.contexts[id].metadata.importance # demoted_importance
                            /\ c.contexts[id].metadata.importance = demoted_importance}
          IN /\ \A id \in demoted :
                   id \notin DOMAIN contexts' /\ id \in DOMAIN archive'
             /\ \A id \in DOMAIN c.contexts \ demoted :
                   (/\ c.contexts[id].metadata.importance >= archive_below
                    /\ now - c.contexts[id].created_at <= archive_days)
                   => id \in DOMAIN contexts']_vars

\* C29: consolidate merges only cold contexts that no consolidate has demoted
\* before: the number it reports is at most the number of cold contexts whose
\* importance is not 0.1, and when every cold context but the 5 most recent of
\* its type is demoted already it creates no context.
C29_MergedAtMostOnce ==
    [][ConsolidateCall =>
          LET fresh == {id \in DOMAIN contexts :
                          /\ now - contexts[id].created_at > cold_days
                          /\ contexts[id].metadata.importance # demoted_importance}
          IN /\ result'.n <= Cardinality(fresh)
             /\ (\A id \in fresh :
                    Cardinality({j \in ColdSet(contexts[id].type) :
                                   contexts[j].created_at > contexts[id].created_at}) < 5)
                => DOMAIN contexts' = DOMAIN contexts]_vars

\* C22: a statement of a sweep's loop leaves the importance of every context
\* that stays active as it is, so an importance set by mark-important after the
\* sweep's query is still there when the sweep ends.
C22_SweepKeepsImportance ==
    [][SweepStep =>
          \A id \in DOMAIN contexts \cap DOMAIN contexts' :
              contexts'[id].metadata.importance = contexts[id].metadata.importance]_vars

\* C23: when the archive sweep has removed the row of a record, the archive
\* holds the entry of that record once the sweep has finished with it.
C23_ArchiveSweepNeverLoses ==
    [][(ArchiveUnlink /\ sweep.deleted) =>
          Head(sweep.rows).id \in DOMAIN archive']_vars

\* C25: a statement of a sweep's loop leaves every context that a save has
\* created since the sweep's query in the active store, with its row as it is
\* and with its mirror file.
C25_SweepLeavesNewRows ==
    [][SweepStep =>
          \A id \in sweep.saved \cap DOMAIN contexts :
              /\ id \in DOMAIN contexts' /\ contexts'[id] = contexts[id]
              /\ id \in files => id \in files']_vars

====
